---- MODULE Spec2Model ----
(***************************************************************************)
(* Model of src/src/analyze.py: the exit-survey course ranking pipeline.   *)
(* Text is a sequence of one-character strings; a spreadsheet cell is a    *)
(* tagged value (missing, text, bool, int, integral float).                *)
(***************************************************************************)
EXTENDS Integers, Sequences, FiniteSets, TLC

VARIABLES pc, exists, file, df, n_responses, columns, most_col, neutral_col,
          least_col, course_stats, ri, buckets, bi, ci, ranking_rows,
          ranking_df, outputs, console, error

vars == <<pc, exists, file, df, n_responses, columns, most_col, neutral_col,
          least_col, course_stats, ri, buckets, bi, ci, ranking_rows,
          ranking_df, outputs, console, error>>

(***************************************************************************)
(* Bounds of the model.                                                    *)
(***************************************************************************)
MaxRows == 2

MaxLen == 5

(***************************************************************************)
(* Characters and text.                                                    *)
(***************************************************************************)
\* The printable characters in code point order, 32..126; five of them are
\* written by name (dquote, lparen, rparen, star, backslash, backtick).
ASCII ==
  << " ", "!", "dquote", "#", "$", "%", "&", "'", "lparen", "rparen", "star", "+", ",", "-", ".", "/",
     "0", "1", "2", "3", "4", "5", "6", "7", "8", "9", ":", ";", "<", "=", ">", "?",
     "@", "A", "B", "C", "D", "E", "F", "G", "H", "I", "J", "K", "L", "M", "N", "O",
     "P", "Q", "R", "S", "T", "U", "V", "W", "X", "Y", "Z", "[", "backslash", "]", "^", "_",
     "backtick", "a", "b", "c", "d", "e", "f", "g", "h", "i", "j", "k", "l", "m", "n", "o",
     "p", "q", "r", "s", "t", "u", "v", "w", "x", "y", "z", "{", "|", "}", "~" >>

\* Code point of a character (Python compares str by code point).
Ord(c) ==
  IF c = "\t" THEN 9
  ELSE IF c = "\n" THEN 10
  ELSE 31 + (CHOOSE i \in 1..Len(ASCII) : ASCII[i] = c)

\* str.isspace() on one character.
IsSpace(c) == Ord(c) \in {9, 10, 32}

\* str.lower() on one character.
LowerChar(c) ==
  IF Ord(c) \in 65..90 THEN ASCII[Ord(c) + 32 - 31] ELSE c

\* str.lower()
Lower(s) == [i \in 1..Len(s) |-> LowerChar(s[i])]

RECURSIVE LStrip(_)
LStrip(s) ==
  IF s = <<>> THEN <<>>
  ELSE IF IsSpace(Head(s)) THEN LStrip(Tail(s))
  ELSE s

RECURSIVE RStrip(_)
RStrip(s) ==
  IF s = <<>> THEN <<>>
  ELSE IF IsSpace(s[Len(s)]) THEN RStrip(SubSeq(s, 1, Len(s) - 1))
  ELSE s

\* Strip as it would be with lstrip() in place of strip().
StripLeftOnly(s) == LStrip(s)

\* str.strip()
Strip(s) == RStrip(LStrip(s))

\* str.split(sep) for a one-character separator: always at least one piece.
RECURSIVE SplitAcc(_, _, _)
SplitAcc(s, sep, cur) ==
  IF s = <<>> THEN <<cur>>
  ELSE IF Head(s) = sep THEN <<cur>> \o SplitAcc(Tail(s), sep, <<>>)
  ELSE SplitAcc(Tail(s), sep, Append(cur, Head(s)))

Split(s, sep) == SplitAcc(s, sep, <<>>)

\* sub in s
Contains(s, sub) ==
  \E i \in 0..(Len(s) - Len(sub)) : SubSeq(s, i + 1, i + Len(sub)) = sub

\* a < b for Python str
RECURSIVE StrLess(_, _)
StrLess(a, b) ==
  IF b = <<>> THEN FALSE
  ELSE IF a = <<>> THEN TRUE
  ELSE IF Ord(Head(a)) # Ord(Head(b)) THEN Ord(Head(a)) < Ord(Head(b))
  ELSE StrLess(Tail(a), Tail(b))

RECURSIVE Digits(_)
Digits(n) ==
  IF n < 10 THEN <<ASCII[n + 17]>>
  ELSE Append(Digits(n \div 10), ASCII[(n % 10) + 17])

(***************************************************************************)
(* Cell values.                                                            *)
(***************************************************************************)
NaN == [k |-> "nan"]
VStr(s) == [k |-> "str", v |-> s]
VBool(b) == [k |-> "bool", v |-> b]
VInt(n) == [k |-> "int", v |-> n]
VFloat(n) == [k |-> "float", v |-> n]

\* pd.isna(value)
IsNa(value) == value.k = "nan"

\* str(value)
ToStr(value) ==
  CASE value.k = "str" -> value.v
    [] value.k = "nan" -> <<"n", "a", "n">>
    [] value.k = "bool" -> IF value.v THEN <<"T", "r", "u", "e">>
                           ELSE <<"F", "a", "l", "s", "e">>
    [] value.k = "int" -> Digits(value.v)
    [] value.k = "float" -> Digits(value.v) \o <<".", "0">>

(***************************************************************************)
(* Program constants (module level of analyze.py and literals of main).    *)
(***************************************************************************)
FINISHED == <<"F", "i", "n", "i", "s", "h", "e", "d">>
GROUPS == <<"G", "r", "o", "u", "p", "s">>
MOST_BENEFICIAL ==
  <<"M", "o", "s", "t", " ", "B", "e", "n", "e", "f", "i", "c", "i", "a", "l">>
NEUTRAL == <<"N", "e", "u", "t", "r", "a", "l">>
LEAST_BENEFICIAL ==
  <<"L", "e", "a", "s", "t", " ", "B", "e", "n", "e", "f", "i", "c", "i", "a", "l">>

\* truthy of normalize_finished
truthy ==
  { <<"t", "r", "u", "e">>, <<"1">>, <<"y", "e", "s">>, <<"y">>, <<"t">> }

\* The keys of the buckets dict of main, in insertion (= iteration) order.
BucketNames == <<"most", "neutral", "least">>

\* ranking_df.head(15) for the chart, ranking_df.head(10) for the console
ChartTop == 15

PrintTop == 10

(***************************************************************************)
(* The helper functions of analyze.py.                                     *)
(***************************************************************************)
\* normalize_finished as it would be without .str.strip().
normalize_finished_unstripped(series) ==
  [i \in 1..Len(series) |-> Lower(ToStr(series[i])) \in truthy]

\* series.astype(str).str.strip().str.lower().isin(truthy)
normalize_finished(series) ==
  [i \in 1..Len(series) |-> Lower(Strip(ToStr(series[i]))) \in truthy]

\* find_group_column as it would be if it failed only on an empty match list.
find_first_group_column(cols, keyword) ==
  LET matches == SelectSeq(cols, LAMBDA c : Contains(c, GROUPS) /\ Contains(c, keyword))
  IN IF Len(matches) = 0
       THEN [raised |-> TRUE, keyword |-> keyword, matches |-> matches]
       ELSE [raised |-> FALSE, value |-> matches[1]]

\* [c for c in columns if "Groups" in c and keyword in c], then the length test
find_group_column(cols, keyword) ==
  LET matches == SelectSeq(cols, LAMBDA c : Contains(c, GROUPS) /\ Contains(c, keyword))
  IN IF Len(matches) # 1
       THEN [raised |-> TRUE, keyword |-> keyword, matches |-> matches]
       ELSE [raised |-> FALSE, value |-> matches[1]]

\* split_courses as it would be without the final filter on empty parts.
split_courses_keep_empty(value) ==
  IF IsNa(value) THEN <<>>
  ELSE LET pieces == Split(ToStr(value), ",")
       IN [i \in 1..Len(pieces) |-> Strip(pieces[i])]

split_courses(value) ==
  IF IsNa(value) THEN <<>>
  ELSE LET pieces == Split(ToStr(value), ",")
           parts == [i \in 1..Len(pieces) |-> Strip(pieces[i])]
       IN SelectSeq(parts, LAMBDA p : p # <<>>)

(***************************************************************************)
(* The data frame: column labels, row labels (index) and rows of cells.    *)
(***************************************************************************)
EmptyFrame == [columns |-> <<>>, index |-> <<>>, rows |-> <<>>]

\* position of a column label
ColPos(frame, name) ==
  CHOOSE j \in 1..Len(frame.columns) : frame.columns[j] = name

\* df[name]
Column(frame, name) ==
  [i \in 1..Len(frame.rows) |-> frame.rows[i][ColPos(frame, name)]]

\* row[name]
Cell(frame, i, name) == frame.rows[i][ColPos(frame, name)]

\* df[mask]: the rows whose mask is true, each keeping its label
BoolIndex(frame, mask) ==
  LET all == [i \in 1..Len(frame.rows) |-> i]
      keep == SelectSeq(all, LAMBDA i : mask[i])
  IN [columns |-> frame.columns,
      index |-> [j \in 1..Len(keep) |-> frame.index[keep[j]]],
      rows |-> [j \in 1..Len(keep) |-> frame.rows[keep[j]]]]

\* df.reset_index(drop=True)
ResetIndex(frame) ==
  [frame EXCEPT !.index = [j \in 1..Len(frame.rows) |-> j - 1]]

(***************************************************************************)
(* course_stats: an insertion-ordered dict, course -> counters.            *)
(***************************************************************************)
Keys(stats) == {stats[j].course : j \in 1..Len(stats)}

KeyPos(stats, course) == CHOOSE j \in 1..Len(stats) : stats[j].course = course

Counts(stats, course) == stats[KeyPos(stats, course)].counts

ZeroCounts == [most |-> 0, neutral |-> 0, least |-> 0]

\* SetDefault as it would be without the "not in" test: the entry is reset each time.
SetDefaultAlwaysReset(stats, course) ==
  IF course \in Keys(stats)
    THEN [stats EXCEPT ![KeyPos(stats, course)].counts = ZeroCounts]
    ELSE Append(stats, [course |-> course, counts |-> ZeroCounts])

\* if course not in course_stats: course_stats[course] = {...}
SetDefault(stats, course) ==
  IF course \in Keys(stats) THEN stats
  ELSE Append(stats, [course |-> course, counts |-> ZeroCounts])

\* Increment as it would be if it always counted into "most".
IncrementMost(stats, course, bucket_name) ==
  [stats EXCEPT ![KeyPos(stats, course)].counts["most"] = @ + 1]

\* course_stats[course][bucket_name] += 1
Increment(stats, course, bucket_name) ==
  [stats EXCEPT ![KeyPos(stats, course)].counts[bucket_name] = @ + 1]

(***************************************************************************)
(* Scoring and ranking.                                                    *)
(***************************************************************************)
\* Score as it would be with the weights 3, 1, 0.
ScoreMostTripled(counts, n) ==
  [num |-> 3 * counts.most + 1 * counts.neutral + 0 * counts.least, den |-> n]

\* (2 * most + 1 * neutral + 0 * least) / n_responses, kept as a fraction
Score(counts, n) ==
  [num |-> 2 * counts.most + 1 * counts.neutral + 0 * counts.least, den |-> n]

ScoreLess(a, b) == a.num * b.den < b.num * a.den

ScoreEq(a, b) == a.num * b.den = b.num * a.den

\* the loop over course_stats.items() that fills ranking_rows
RankingRows(stats, n) ==
  [j \in 1..Len(stats) |->
     [course |-> stats[j].course,
      score |-> Score(stats[j].counts, n),
      most |-> stats[j].counts.most,
      neutral |-> stats[j].counts.neutral,
      least |-> stats[j].counts.least,
      N |-> n]]

\* Before as it would be without "course" among the sort keys.
BeforeWithoutName(a, b) ==
  IF ~ScoreEq(a.score, b.score) THEN ScoreLess(b.score, a.score)
  ELSE IF a.most # b.most THEN a.most > b.most
  ELSE a.neutral > b.neutral

\* a sorts strictly before b under by=[score, most, neutral, course],
\* ascending=[False, False, False, True]
Before(a, b) ==
  IF ~ScoreEq(a.score, b.score) THEN ScoreLess(b.score, a.score)
  ELSE IF a.most # b.most THEN a.most > b.most
  ELSE IF a.neutral # b.neutral THEN a.neutral > b.neutral
  ELSE StrLess(a.course, b.course)

RECURSIVE Merge(_, _)
Merge(l, r) ==
  IF l = <<>> THEN r
  ELSE IF r = <<>> THEN l
  ELSE IF Before(Head(r), Head(l)) THEN <<Head(r)>> \o Merge(l, Tail(r))
  ELSE <<Head(l)>> \o Merge(Tail(l), r)

\* sort_values(..., kind="mergesort"): a stable sort
RECURSIVE SortValues(_)
SortValues(rows) ==
  IF Len(rows) <= 1 THEN rows
  ELSE LET h == Len(rows) \div 2
       IN Merge(SortValues(SubSeq(rows, 1, h)),
                SortValues(SubSeq(rows, h + 1, Len(rows))))

\* InsertRank as it would be with ranking_df.index in place of ranking_df.index + 1.
InsertRankZeroBased(rows) ==
  [j \in 1..Len(rows) |->
     [rank |-> j - 1, course |-> rows[j].course, score |-> rows[j].score,
      most |-> rows[j].most, neutral |-> rows[j].neutral,
      least |-> rows[j].least, N |-> rows[j].N]]

\* ranking_df.insert(0, "rank", ranking_df.index + 1) after reset_index
InsertRank(rows) ==
  [j \in 1..Len(rows) |->
     [rank |-> (j - 1) + 1, course |-> rows[j].course, score |-> rows[j].score,
      most |-> rows[j].most, neutral |-> rows[j].neutral,
      least |-> rows[j].least, N |-> rows[j].N]]

\* df.head(n)
FrameHead(rows, n) == SubSeq(rows, 1, IF Len(rows) < n THEN Len(rows) ELSE n)

(***************************************************************************)
(* Inputs: the first sheet of the workbook at DATA_PATH.                   *)
(***************************************************************************)
COL_MOST == GROUPS \o <<" ", "-", " ">> \o MOST_BENEFICIAL
COL_NEUTRAL == NEUTRAL \o <<" ">> \o GROUPS
COL_LEAST == <<"Q", "2", " ">> \o GROUPS \o <<" ">> \o LEAST_BENEFICIAL
COL_MOST_AGAIN == COL_MOST \o <<".", "1">>
COL_NO_GROUPS == MOST_BENEFICIAL
COL_LOWER_GROUPS == Lower(GROUPS) \o <<" ">> \o NEUTRAL
COL_LEAST_SHORT == GROUPS \o <<" ", "L", "e", "a", "s", "t">>
COL_MOST_AND_NEUTRAL == GROUPS \o <<" ">> \o MOST_BENEFICIAL \o <<"/">> \o NEUTRAL
COL_LOWER_FINISHED == Lower(FINISHED)

\* A sheet layout: the header row, and which field of a pool row fills each column.
Sheets ==
  { [cols |-> <<FINISHED, COL_MOST, COL_NEUTRAL, COL_LEAST>>, pick |-> <<1, 2, 3, 4>>],
    [cols |-> <<COL_LEAST, COL_NEUTRAL, COL_MOST>>, pick |-> <<4, 3, 2>>],
    [cols |-> <<COL_LOWER_FINISHED, COL_MOST, COL_NEUTRAL, COL_LEAST>>,
     pick |-> <<1, 2, 3, 4>>],
    [cols |-> <<FINISHED, COL_MOST_AND_NEUTRAL, COL_LEAST>>, pick |-> <<1, 2, 4>>],
    [cols |-> <<FINISHED, COL_MOST, COL_MOST_AGAIN, COL_LEAST>>, pick |-> <<1, 2, 3, 4>>],
    [cols |-> <<FINISHED, COL_NO_GROUPS, COL_NEUTRAL, COL_LEAST>>, pick |-> <<1, 2, 3, 4>>],
    [cols |-> <<FINISHED, COL_MOST, COL_LOWER_GROUPS, COL_LEAST>>, pick |-> <<1, 2, 3, 4>>],
    [cols |-> <<FINISHED, COL_MOST, COL_NEUTRAL, COL_LEAST_SHORT>>, pick |-> <<1, 2, 3, 4>>] }

\* Respondent rows <<Finished, most, neutral, least>>.
RowPool ==
  { <<VStr(<<" ", "T", "r", "u", "e", " ">>), VStr(<<"A", ",", " ", "B">>), NaN, VStr(<<"C">>)>>,
    <<VStr(<<"Y", "E", "S">>), VStr(<<"A">>), VStr(<<"B">>), NaN>>,
    <<VBool(TRUE), NaN, VStr(<<"A", ",", " ", "C">>), VStr(<<"B">>)>>,
    <<VInt(1), VStr(<<"A", ",", "A">>), NaN, NaN>>,
    <<VStr(<<"t">>), VStr(<<"B">>), VStr(<<"B">>), VStr(<<"B">>)>>,
    <<VStr(<<"y">>), NaN, NaN, NaN>>,
    <<VStr(<<"1">>), VStr(<<" ", ",", " ">>), NaN, VStr(<<",">>)>>,
    <<VStr(<<"T", "r", "u", "e">>), VStr(<<"a", ",", "B">>), NaN, VInt(7)>>,
    <<VStr(<<"0">>), VStr(<<"A">>), NaN, NaN>>,
    <<NaN, VStr(<<"B">>), NaN, NaN>>,
    <<VFloat(1), VStr(<<"C">>), NaN, NaN>>,
    <<VStr(<<"m", "a", "y", "b", "e">>), NaN, VStr(<<"A">>), NaN>>,
    <<VBool(FALSE), NaN, NaN, VStr(<<"C">>)>>,
    <<VStr(<<>>), VStr(<<"B", ",", "A">>), NaN, NaN>> }

MkFile(sheet, rows) ==
  [columns |-> sheet.cols,
   rows |-> [i \in 1..Len(rows) |->
               [j \in 1..Len(sheet.pick) |-> rows[i][sheet.pick[j]]]]]

Tables(n) == UNION {[1..m -> RowPool] : m \in 0..n}

Files == {MkFile(sheet, rows) : sheet \in Sheets, rows \in Tables(MaxRows)}

NoFile == [columns |-> <<>>, rows |-> <<>>]

\* Texts of at most n characters over the characters that matter to split_courses.
SplitAlphabet == {"A", "B", " ", ","}

Texts(n) == UNION {[1..m -> SplitAlphabet] : m \in 0..n}

SplitCells == {NaN, VInt(12)} \cup {VStr(t) : t \in Texts(MaxLen)}

SplitSheet == [cols |-> <<FINISHED, COL_MOST, COL_NEUTRAL, COL_LEAST>>, pick |-> <<1, 2, 3, 4>>]

SplitFiles ==
  {MkFile(SplitSheet, << <<VStr(<<"y", "e", "s">>), cell, NaN, NaN>> >>) : cell \in SplitCells}

(***************************************************************************)
(* main                                                                    *)
(***************************************************************************)
NoError == [name |-> "none"]
Absent == [k |-> "absent"]
NoBuckets == [most |-> <<>>, neutral |-> <<>>, least |-> <<>>]

InitRun ==
  /\ pc = "start"
  /\ df = EmptyFrame
  /\ n_responses = 0
  /\ columns = <<>>
  /\ most_col = <<>>
  /\ neutral_col = <<>>
  /\ least_col = <<>>
  /\ course_stats = <<>>
  /\ ri = 0
  /\ buckets = NoBuckets
  /\ bi = 1
  /\ ci = 0
  /\ ranking_rows = <<>>
  /\ ranking_df = <<>>
  /\ outputs = [dir |-> FALSE, csv |-> Absent, png |-> Absent]
  /\ console = <<>>
  /\ error = NoError

Init ==
  /\ \/ exists = TRUE /\ file \in Files
     \/ exists = FALSE /\ file = NoFile
  /\ InitRun

InitSplit ==
  /\ \/ exists = TRUE /\ file \in SplitFiles
     \/ exists = FALSE /\ file = NoFile
  /\ InitRun

Raise(err) ==
  /\ error' = err
  /\ pc' = "failed"

\* if not DATA_PATH.exists(): raise FileNotFoundError
CheckExists ==
  /\ pc = "start"
  /\ IF ~exists
       THEN Raise([name |-> "DatasetNotFound"])
       ELSE pc' = "read" /\ error' = error
  /\ UNCHANGED <<exists, file, df, n_responses, columns, most_col, neutral_col,
                 least_col, course_stats, ri, buckets, bi, ci, ranking_rows,
                 ranking_df, outputs, console>>

\* df = pd.read_excel(DATA_PATH, sheet_name=0)
ReadExcel ==
  /\ pc = "read"
  /\ df' = [columns |-> file.columns,
            index |-> [i \in 1..Len(file.rows) |-> i - 1],
            rows |-> file.rows]
  /\ pc' = "filter"
  /\ UNCHANGED <<exists, file, n_responses, columns, most_col, neutral_col,
                 least_col, course_stats, ri, buckets, bi, ci, ranking_rows,
                 ranking_df, outputs, console, error>>

\* if "Finished" in df.columns: df = df[normalize_finished(df["Finished"])]
FilterFinished ==
  /\ pc = "filter"
  /\ df' = IF \E j \in 1..Len(df.columns) : df.columns[j] = FINISHED
             THEN BoolIndex(df, normalize_finished(Column(df, FINISHED)))
             ELSE df
  /\ pc' = "reset"
  /\ UNCHANGED <<exists, file, n_responses, columns, most_col, neutral_col,
                 least_col, course_stats, ri, buckets, bi, ci, ranking_rows,
                 ranking_df, outputs, console, error>>

\* df = df.reset_index(drop=True); n_responses = len(df); the EmptyDataset stop
CountResponses ==
  /\ pc = "reset"
  /\ df' = ResetIndex(df)
  /\ n_responses' = Len(df.rows)
  /\ IF Len(df.rows) = 0
       THEN Raise([name |-> "EmptyDataset"])
       ELSE pc' = "most_col" /\ error' = error
  /\ UNCHANGED <<exists, file, columns, most_col, neutral_col, least_col,
                 course_stats, ri, buckets, bi, ci, ranking_rows, ranking_df,
                 outputs, console>>

AmbiguousColumn(r) ==
  [name |-> "AmbiguousColumn", keyword |-> r.keyword, matches |-> r.matches]

\* columns = [str(c) for c in df.columns]; most_col = find_group_column(...)
ResolveMost ==
  /\ pc = "most_col"
  /\ columns' = df.columns
  /\ LET r == find_group_column(df.columns, MOST_BENEFICIAL)
     IN IF r.raised
          THEN Raise(AmbiguousColumn(r)) /\ most_col' = most_col
          ELSE most_col' = r.value /\ pc' = "neutral_col" /\ error' = error
  /\ UNCHANGED <<exists, file, df, n_responses, neutral_col, least_col,
                 course_stats, ri, buckets, bi, ci, ranking_rows, ranking_df,
                 outputs, console>>

\* neutral_col = find_group_column(columns, "Neutral")
ResolveNeutral ==
  /\ pc = "neutral_col"
  /\ LET r == find_group_column(columns, NEUTRAL)
     IN IF r.raised
          THEN Raise(AmbiguousColumn(r)) /\ neutral_col' = neutral_col
          ELSE neutral_col' = r.value /\ pc' = "least_col" /\ error' = error
  /\ UNCHANGED <<exists, file, df, n_responses, columns, most_col, least_col,
                 course_stats, ri, buckets, bi, ci, ranking_rows, ranking_df,
                 outputs, console>>

\* least_col = find_group_column(columns, "Least Beneficial"); course_stats = {}
ResolveLeast ==
  /\ pc = "least_col"
  /\ LET r == find_group_column(columns, LEAST_BENEFICIAL)
     IN IF r.raised
          THEN Raise(AmbiguousColumn(r)) /\ least_col' = least_col
               /\ course_stats' = course_stats
          ELSE least_col' = r.value /\ course_stats' = <<>>
               /\ pc' = "rows" /\ error' = error
  /\ UNCHANGED <<exists, file, df, n_responses, columns, most_col, neutral_col,
                 ri, buckets, bi, ci, ranking_rows, ranking_df, outputs, console>>

\* for _, row in df.iterrows(): buckets = {...}
NextRow ==
  /\ pc = "rows"
  /\ IF ri = Len(df.rows)
       THEN pc' = "check" /\ UNCHANGED <<ri, buckets, bi, ci>>
       ELSE /\ ri' = ri + 1
            /\ buckets' = [most |-> split_courses(Cell(df, ri + 1, most_col)),
                           neutral |-> split_courses(Cell(df, ri + 1, neutral_col)),
                           least |-> split_courses(Cell(df, ri + 1, least_col))]
            /\ bi' = 1
            /\ ci' = 0
            /\ pc' = "courses"
  /\ UNCHANGED <<exists, file, df, n_responses, columns, most_col, neutral_col,
                 least_col, course_stats, ranking_rows, ranking_df, outputs,
                 console, error>>

\* for bucket_name, courses in buckets.items(): the list of one bucket is exhausted
NextBucket ==
  /\ pc = "courses"
  /\ ci = Len(buckets[BucketNames[bi]])
  /\ IF bi = Len(BucketNames)
       THEN pc' = "rows" /\ UNCHANGED <<bi, ci>>
       ELSE bi' = bi + 1 /\ ci' = 0 /\ pc' = pc
  /\ UNCHANGED <<exists, file, df, n_responses, columns, most_col, neutral_col,
                 least_col, course_stats, ri, buckets, ranking_rows, ranking_df,
                 outputs, console, error>>

\* for course in courses: create the entry when missing, then += 1
TallyCourse ==
  /\ pc = "courses"
  /\ ci < Len(buckets[BucketNames[bi]])
  /\ LET course == buckets[BucketNames[bi]][ci + 1]
     IN course_stats' = Increment(SetDefault(course_stats, course), course, BucketNames[bi])
  /\ ci' = ci + 1
  /\ UNCHANGED <<pc, exists, file, df, n_responses, columns, most_col,
                 neutral_col, least_col, ri, buckets, bi, ranking_rows,
                 ranking_df, outputs, console, error>>

\* CheckCourses as it would be with OUTPUT_DIR.mkdir(...) moved above the test.
CheckCoursesAfterMkdir ==
  /\ pc = "check"
  /\ outputs' = [outputs EXCEPT !.dir = TRUE]
  /\ IF course_stats = <<>>
       THEN Raise([name |-> "NoCoursesFound"])
       ELSE pc' = "score" /\ error' = error
  /\ UNCHANGED <<exists, file, df, n_responses, columns, most_col, neutral_col,
                 least_col, course_stats, ri, buckets, bi, ci, ranking_rows,
                 ranking_df, console>>

\* if not course_stats: raise ValueError("No course names found ...")
CheckCourses ==
  /\ pc = "check"
  /\ IF course_stats = <<>>
       THEN Raise([name |-> "NoCoursesFound"])
       ELSE pc' = "score" /\ error' = error
  /\ UNCHANGED <<exists, file, df, n_responses, columns, most_col, neutral_col,
                 least_col, course_stats, ri, buckets, bi, ci, ranking_rows,
                 ranking_df, outputs, console>>

\* ranking_rows = [...]
BuildRankingRows ==
  /\ pc = "score"
  /\ ranking_rows' = RankingRows(course_stats, n_responses)
  /\ pc' = "sort"
  /\ UNCHANGED <<exists, file, df, n_responses, columns, most_col, neutral_col,
                 least_col, course_stats, ri, buckets, bi, ci, ranking_df,
                 outputs, console, error>>

\* ranking_df = DataFrame(ranking_rows).sort_values(...).reset_index(drop=True); rank
SortAndRank ==
  /\ pc = "sort"
  /\ ranking_df' = InsertRank(SortValues(ranking_rows))
  /\ pc' = "mkdir"
  /\ UNCHANGED <<exists, file, df, n_responses, columns, most_col, neutral_col,
                 least_col, course_stats, ri, buckets, bi, ci, ranking_rows,
                 outputs, console, error>>

\* OUTPUT_DIR.mkdir(parents=True, exist_ok=True)
MakeOutputDir ==
  /\ pc = "mkdir"
  /\ outputs' = [outputs EXCEPT !.dir = TRUE]
  /\ pc' = "csv"
  /\ UNCHANGED <<exists, file, df, n_responses, columns, most_col, neutral_col,
                 least_col, course_stats, ri, buckets, bi, ci, ranking_rows,
                 ranking_df, console, error>>

\* ranking_df.to_csv(OUTPUT_CSV, index=False)
WriteCsv ==
  /\ pc = "csv"
  /\ outputs' = [outputs EXCEPT !.csv = [k |-> "csv", rows |-> ranking_df]]
  /\ pc' = "chart"
  /\ UNCHANGED <<exists, file, df, n_responses, columns, most_col, neutral_col,
                 least_col, course_stats, ri, buckets, bi, ci, ranking_rows,
                 ranking_df, console, error>>

\* top_15 = ranking_df.head(15); ...; plt.savefig(OUTPUT_PNG, dpi=150)
SaveChart ==
  /\ pc = "chart"
  /\ LET top_15 == FrameHead(ranking_df, ChartTop)
     IN outputs' = [outputs EXCEPT
                      !.png = [k |-> "png",
                               bars |-> [j \in 1..Len(top_15) |->
                                           [course |-> top_15[j].course,
                                            score |-> top_15[j].score]]]]
  /\ pc' = "print"
  /\ UNCHANGED <<exists, file, df, n_responses, columns, most_col, neutral_col,
                 least_col, course_stats, ri, buckets, bi, ci, ranking_rows,
                 ranking_df, console, error>>

\* print(N); print("Top 10 courses:"); print(ranking_df.head(10)...)
PrintSummary ==
  /\ pc = "print"
  /\ console' = <<[N |-> n_responses], [top |-> FrameHead(ranking_df, PrintTop)]>>
  /\ pc' = "done"
  /\ UNCHANGED <<exists, file, df, n_responses, columns, most_col, neutral_col,
                 least_col, course_stats, ri, buckets, bi, ci, ranking_rows,
                 ranking_df, outputs, error>>

Next ==
  \/ CheckExists
  \/ ReadExcel
  \/ FilterFinished
  \/ CountResponses
  \/ ResolveMost
  \/ ResolveNeutral
  \/ ResolveLeast
  \/ NextRow
  \/ NextBucket
  \/ TallyCourse
  \/ CheckCourses
  \/ BuildRankingRows
  \/ SortAndRank
  \/ MakeOutputDir
  \/ WriteCsv
  \/ SaveChart
  \/ PrintSummary

Spec == Init /\ [][Next]_vars

SpecSplit == InitSplit /\ [][Next]_vars

(***************************************************************************)
(* Vocabulary of the properties.                                           *)
(***************************************************************************)
Failed(name) == pc = "failed" /\ error.name = name

FilterDone ==
  \/ pc \in {"reset", "most_col", "neutral_col", "least_col", "rows", "courses",
             "check", "score", "sort", "mkdir", "csv", "chart", "print", "done"}
  \/ pc = "failed" /\ error.name # "DatasetNotFound"

Counted == FilterDone /\ pc # "reset"

ColumnsResolved ==
  \/ pc \in {"rows", "courses", "check", "score", "sort", "mkdir", "csv", "chart",
             "print", "done"}
  \/ Failed("NoCoursesFound")

ScanDone ==
  \/ pc \in {"check", "score", "sort", "mkdir", "csv", "chart", "print", "done"}
  \/ Failed("NoCoursesFound")

Scored == pc \in {"sort", "mkdir", "csv", "chart", "print", "done"}

Ranked == pc \in {"mkdir", "csv", "chart", "print", "done"}

RECURSIVE SumTo(_, _)
SumTo(f, n) == IF n = 0 THEN 0 ELSE f[n] + SumTo(f, n - 1)

\* the j-th smallest element of a finite set of integers
Nth(S, j) == CHOOSE i \in S : Cardinality({x \in S : x <= i}) = j

\* number of positions of a list holding c
Occ(list, c) == Cardinality({p \in 1..Len(list) : list[p] = c})

BucketColumn(b) ==
  CASE b = "most" -> most_col
    [] b = "neutral" -> neutral_col
    [] b = "least" -> least_col

\* the course list extracted for bucket b from retained row i
Extracted(i, b) == split_courses(Cell(df, i, BucketColumn(b)))

\* occurrences of c in bucket b over all retained rows
Mentions(c, b) ==
  SumTo([i \in 1..Len(df.rows) |-> Occ(Extracted(i, b), c)], Len(df.rows))

\* occurrences of c in the three extracted lists of retained row i
RowMentions(i, c) ==
  Occ(Extracted(i, "most"), c) + Occ(Extracted(i, "neutral"), c)
    + Occ(Extracted(i, "least"), c)

Mentioned ==
  UNION {{Extracted(i, b)[p] : p \in 1..Len(Extracted(i, b))} :
           i \in 1..Len(df.rows), b \in {"most", "neutral", "least"}}

(***************************************************************************)
(* C1 (as stated): for every course of the finished tally, with N >= 1     *)
(* retained rows and arbitrary cells, score = (2*most + neutral) / N lies  *)
(* in [0, 2], i.e. 0 <= 2*most + neutral <= 2*N.                           *)
(***************************************************************************)
C1_ScoreWithinTwo ==
  Scored =>
    \A j \in 1..Len(ranking_rows) :
      LET e == ranking_rows[j]
      IN /\ e.N = Len(df.rows) /\ e.N >= 1
         /\ e.score.den = e.N
         /\ e.score.num = 2 * e.most + e.neutral
         /\ 0 <= e.score.num
         /\ e.score.num <= 2 * e.N

(***************************************************************************)
(* C1 (amended): score = (2*most + neutral) / N with N the number of       *)
(* retained rows, N >= 1 and score >= 0; and score <= 2 for every course   *)
(* that occurs at most once in total in the three extracted bucket lists   *)
(* of each retained row.                                                   *)
(***************************************************************************)
C1_ScoreWithinTwoWhenListedOncePerRow ==
  Scored =>
    \A j \in 1..Len(ranking_rows) :
      LET e == ranking_rows[j]
      IN /\ e.N = Len(df.rows) /\ e.N >= 1
         /\ e.score.den = e.N
         /\ e.score.num = 2 * e.most + e.neutral
         /\ 0 <= e.score.num
         /\ (\A i \in 1..Len(df.rows) : RowMentions(i, e.course) <= 1)
              => e.score.num <= 2 * e.N

\* A course listed once per row reaches the top score 2 with N = 2.
C1_Witness ==
  /\ pc = "done"
  /\ n_responses = 2
  /\ \E j \in 1..Len(ranking_rows) :
       /\ ranking_rows[j].score.num = 2 * ranking_rows[j].N
       /\ \A i \in 1..Len(df.rows) : RowMentions(i, ranking_rows[j].course) = 1

(***************************************************************************)
(* C2: once all retained rows are scanned, every counter tally[c][b]       *)
(* equals the number of occurrences of c in the extracted lists of bucket  *)
(* b over the retained rows, duplicates inside a cell counted; the three   *)
(* counters sum to the number of occurrences of c; the tally holds exactly *)
(* the mentioned courses, so rows dropped by the filter add nothing.       *)
(***************************************************************************)
C2_TallyCountsOccurrences ==
  ScanDone =>
    /\ Keys(course_stats) = Mentioned
    /\ \A j \in 1..Len(course_stats) :
         LET e == course_stats[j]
         IN /\ e.counts.most = Mentions(e.course, "most")
            /\ e.counts.neutral = Mentions(e.course, "neutral")
            /\ e.counts.least = Mentions(e.course, "least")
            /\ e.counts.most + e.counts.neutral + e.counts.least
                 = SumTo([i \in 1..Len(df.rows) |-> RowMentions(i, e.course)],
                         Len(df.rows))

\* One retained row whose cell repeats a course, one row dropped by the filter.
C2_Witness ==
  /\ pc = "done"
  /\ Len(file.rows) = 2
  /\ Len(df.rows) = 1
  /\ \E j \in 1..Len(course_stats) :
       /\ course_stats[j].counts.most = 2
       /\ Occ(Extracted(1, "most"), course_stats[j].course) = 2

(***************************************************************************)
(* C3: in the ranked table every entry strictly precedes the next one      *)
(* under the key (score descending, most descending, neutral descending,   *)
(* course name ascending by code point); the table holds the scored rows   *)
(* and is the same whatever order the courses were first met in.           *)
(***************************************************************************)
KeyPrecedes(a, b) ==
  \/ a.score.num * b.score.den > b.score.num * a.score.den
  \/ /\ a.score.num * b.score.den = b.score.num * a.score.den
     /\ \/ a.most > b.most
        \/ a.most = b.most /\ a.neutral > b.neutral
        \/ /\ a.most = b.most
           /\ a.neutral = b.neutral
           /\ \E p \in 1..Len(b.course) :
                /\ SubSeq(a.course, 1, p - 1) = SubSeq(b.course, 1, p - 1)
                /\ \/ Len(a.course) = p - 1
                   \/ Len(a.course) >= p /\ Ord(a.course[p]) < Ord(b.course[p])

Unranked(e) ==
  [course |-> e.course, score |-> e.score, most |-> e.most,
   neutral |-> e.neutral, least |-> e.least, N |-> e.N]

Reversed(rows) == [j \in 1..Len(rows) |-> rows[Len(rows) + 1 - j]]

C3_StrictKeyOrder ==
  Ranked =>
    /\ \A r \in 1..(Len(ranking_df) - 1) : KeyPrecedes(ranking_df[r], ranking_df[r + 1])
    /\ Len(ranking_df) = Len(ranking_rows)
    /\ {Unranked(ranking_df[r]) : r \in 1..Len(ranking_df)}
         = {ranking_rows[j] : j \in 1..Len(ranking_rows)}
    /\ InsertRank(SortValues(Reversed(ranking_rows))) = ranking_df

\* Two courses tied on score, most and neutral, met in the order opposite to their names.
C3_Witness ==
  /\ pc = "done"
  /\ \E j, k \in 1..Len(ranking_rows) :
       /\ j < k
       /\ ranking_rows[j].score = ranking_rows[k].score
       /\ ranking_rows[j].most = ranking_rows[k].most
       /\ ranking_rows[j].neutral = ranking_rows[k].neutral
       /\ KeyPrecedes(ranking_rows[k], ranking_rows[j])
       /\ \E r \in 1..(Len(ranking_df) - 1) :
            /\ ranking_df[r].course = ranking_rows[k].course
            /\ ranking_df[r + 1].course = ranking_rows[j].course

(***************************************************************************)
(* C4: the ranked table has exactly one entry per distinct course of the   *)
(* tally (k entries) and the ranks are exactly 1..k, each used once, so    *)
(* their sum is k*(k+1)/2.                                                 *)
(***************************************************************************)
C4_DenseRanks ==
  Ranked =>
    LET k == Cardinality(Keys(course_stats))
    IN /\ k = Cardinality(Mentioned)
       /\ Len(ranking_df) = k
       /\ {ranking_df[r].course : r \in 1..Len(ranking_df)} = Keys(course_stats)
       /\ {ranking_df[r].rank : r \in 1..Len(ranking_df)} = 1..k
       /\ \A r, q \in 1..Len(ranking_df) :
            r # q => /\ ranking_df[r].rank # ranking_df[q].rank
                     /\ ranking_df[r].course # ranking_df[q].course
       /\ 2 * SumTo([r \in 1..Len(ranking_df) |-> ranking_df[r].rank], Len(ranking_df))
            = k * (k + 1)

\* A finished ranking of at least four courses.
C4_Witness ==
  /\ pc = "done"
  /\ Len(ranking_df) >= 4
  /\ ranking_df[Len(ranking_df)].rank = Len(ranking_df)

(***************************************************************************)
(* C5: a run either produces the complete ranking and writes both output   *)
(* files, or aborts before any output: when one of the four named errors   *)
(* is raised, the output directory was not created and neither file was    *)
(* written, and no terminated state has exactly one of the two files.      *)
(***************************************************************************)
NamedErrors == {"DatasetNotFound", "EmptyDataset", "AmbiguousColumn", "NoCoursesFound"}

Matching(keyword) ==
  {j \in 1..Len(file.columns) :
     Contains(file.columns[j], GROUPS) /\ Contains(file.columns[j], keyword)}

FailedOn(keyword) == Failed("AmbiguousColumn") /\ error.keyword = keyword

TriedMost ==
  \/ pc \in {"neutral_col", "least_col", "rows", "courses", "check", "score", "sort",
             "mkdir", "csv", "chart", "print", "done"}
  \/ Failed("AmbiguousColumn")
  \/ Failed("NoCoursesFound")

TriedNeutral == TriedMost /\ pc # "neutral_col" /\ ~FailedOn(MOST_BENEFICIAL)

TriedLeast == TriedNeutral /\ pc # "least_col" /\ ~FailedOn(NEUTRAL)

ResolvedAs(keyword, col) ==
  IF Cardinality(Matching(keyword)) = 1
    THEN ~FailedOn(keyword) /\ \A j \in Matching(keyword) : col = file.columns[j]
    ELSE /\ FailedOn(keyword)
         /\ Len(error.matches) = Cardinality(Matching(keyword))
         /\ \A j \in Matching(keyword) :
              \E m \in 1..Len(error.matches) : error.matches[m] = file.columns[j]

C6_ExactlyOneColumn ==
  /\ TriedMost => ResolvedAs(MOST_BENEFICIAL, most_col)
  /\ TriedNeutral => ResolvedAs(NEUTRAL, neutral_col)
  /\ TriedLeast => ResolvedAs(LEAST_BENEFICIAL, least_col)
  /\ Failed("AmbiguousColumn") =>
       /\ error.keyword \in {MOST_BENEFICIAL, NEUTRAL, LEAST_BENEFICIAL}
       /\ course_stats = <<>>
       /\ ri = 0
       /\ ranking_rows = <<>>

\* Two columns hold "Groups" and "Most Beneficial": the run stops with rows to tally.
C6_Witness ==
  /\ FailedOn(MOST_BENEFICIAL)
  /\ Len(error.matches) = 2
  /\ Len(df.rows) = 2
  /\ course_stats = <<>>

(***************************************************************************)
(* C7: when a column named exactly "Finished" exists, the retained rows    *)
(* are exactly the rows whose Finished cell, as text, trimmed and          *)
(* lowercased, is one of "true", "1", "yes", "y", "t", in their original   *)
(* order; without that column every row is retained; N is the number of    *)
(* retained rows and EmptyDataset is raised exactly when it is zero.       *)
(***************************************************************************)
\* Cells of the input whose text, trimmed and lowercased, is a truthy word.
FinishedTrue ==
  { VStr(<<" ", "T", "r", "u", "e", " ">>), VStr(<<"Y", "E", "S">>), VBool(TRUE),
    VInt(1), VStr(<<"t">>), VStr(<<"y">>), VStr(<<"1">>), VStr(<<"T", "r", "u", "e">>),
    VStr(<<"y", "e", "s">>) }

FinishedPos == {j \in 1..Len(file.columns) : file.columns[j] = FINISHED}

Kept ==
  IF FinishedPos = {} THEN 1..Len(file.rows)
  ELSE {i \in 1..Len(file.rows) : \A j \in FinishedPos : file.rows[i][j] \in FinishedTrue}

C7_CompletionFilter ==
  /\ FilterDone =>
       /\ Len(df.rows) = Cardinality(Kept)
       /\ \A j \in 1..Len(df.rows) : df.rows[j] = file.rows[Nth(Kept, j)]
       /\ df.columns = file.columns
  /\ Counted =>
       /\ n_responses = Cardinality(Kept)
       /\ df.index = [j \in 1..Len(df.rows) |-> j - 1]
       /\ Failed("EmptyDataset") <=> Kept = {}

\* Finished = " True " is kept and counted while another row is dropped.
C7_Witness ==
  /\ pc = "most_col"
  /\ n_responses = 1
  /\ Len(file.rows) = 2
  /\ FinishedPos # {}
  /\ \A j \in FinishedPos : df.rows[1][j] = VStr(<<" ", "T", "r", "u", "e", " ">>)
  /\ df.rows[1] = file.rows[2]

(***************************************************************************)
(* C8 (as stated): NoCoursesFound is raised exactly when the tally is      *)
(* empty after the scan, and only if every bucket cell of every retained   *)
(* row is empty or missing: one non-empty bucket cell in a retained row    *)
(* makes the tally non-empty.                                              *)
(***************************************************************************)
EmptyCell(value) == IsNa(value) \/ ToStr(value) = <<>>

BucketCells ==
  {Cell(df, i, BucketColumn(b)) : i \in 1..Len(df.rows), b \in {"most", "neutral", "least"}}

C8_EmptyTallyOnlyFromEmptyCells ==
  ScanDone =>
    /\ pc # "check" => (Failed("NoCoursesFound") <=> course_stats = <<>>)
    /\ course_stats = <<>> <=> \A v \in BucketCells : EmptyCell(v)

(***************************************************************************)
(* C8 (amended): NoCoursesFound is raised exactly when the tally is empty  *)
(* after the scan, and that happens exactly when every bucket cell of      *)
(* every retained row is missing or holds only commas and whitespace: one  *)
(* bucket cell of a retained row with any other character makes the tally  *)
(* non-empty.                                                              *)
(***************************************************************************)
BlankCell(value) ==
  \/ IsNa(value)
  \/ \A p \in 1..Len(ToStr(value)) : ToStr(value)[p] = "," \/ IsSpace(ToStr(value)[p])

C8_EmptyTallyOnlyFromBlankCells ==
  ScanDone =>
    /\ pc # "check" => (Failed("NoCoursesFound") <=> course_stats = <<>>)
    /\ course_stats = <<>> <=> \A v \in BucketCells : BlankCell(v)
    /\ Failed("NoCoursesFound") => ri = Len(df.rows)

\* A retained row whose cells hold only commas and blanks: NoCoursesFound.
C8_Witness ==
  /\ Failed("NoCoursesFound")
  /\ Len(df.rows) = 1
  /\ \E v \in BucketCells : ~IsNa(v) /\ BlankCell(v)

(***************************************************************************)
(* C9: split_courses gives the empty sequence for a missing cell; for any  *)
(* other cell it gives the comma-separated pieces of the cell's text, each *)
(* trimmed, the pieces empty after trimming removed, in left-to-right      *)
(* order with duplicates kept; so no element is empty, starts or ends with *)
(* whitespace or holds a comma, and a missing cell adds nothing to any     *)
(* tally.                                                                  *)
(***************************************************************************)
\* the cell under the "Most Beneficial" column of the only row
ProbeCell == file.rows[1][2]

\* where pieces start: position 0 and every comma; where they stop: the next comma or the end
PieceStarts(t) == {0} \cup {p \in 1..Len(t) : t[p] = ","}

PieceStop(t, b) ==
  CHOOSE q \in (b + 1)..(Len(t) + 1) :
    /\ q = Len(t) + 1 \/ t[q] = ","
    /\ \A x \in (b + 1)..(q - 1) : t[x] # ","

\* the positions of a piece that are not whitespace
Core(t, b) == {x \in (b + 1)..(PieceStop(t, b) - 1) : ~IsSpace(t[x])}

Least(S) == CHOOSE x \in S : \A y \in S : x <= y

Greatest(S) == CHOOSE x \in S : \A y \in S : y <= x

ExpectedCourses(t) ==
  LET starts == {b \in PieceStarts(t) : Core(t, b) # {}}
  IN [j \in 1..Cardinality(starts) |->
        SubSeq(t, Least(Core(t, Nth(starts, j))), Greatest(Core(t, Nth(starts, j))))]

C9_SplitCourses ==
  (exists /\ ri = 1) =>
    /\ IsNa(ProbeCell) => buckets.most = <<>> /\ course_stats = <<>>
    /\ ~IsNa(ProbeCell) => buckets.most = ExpectedCourses(ToStr(ProbeCell))
    /\ \A p \in 1..Len(buckets.most) :
         LET c == buckets.most[p]
         IN /\ c # <<>>
            /\ ~IsSpace(c[1])
            /\ ~IsSpace(c[Len(c)])
            /\ \A x \in 1..Len(c) : c[x] # ","
    /\ ScanDone =>
         /\ Len(buckets.most)
              = SumTo([j \in 1..Len(course_stats) |-> course_stats[j].counts.most],
                      Len(course_stats))
         /\ \A j \in 1..Len(course_stats) :
              course_stats[j].counts.most = Occ(buckets.most, course_stats[j].course)

\* "A, ,A": the blank piece is dropped, both A are kept and tallied.
C9_Witness ==
  /\ pc = "done"
  /\ ProbeCell = VStr(<<"A", ",", " ", ",", "A">>)
  /\ buckets.most = << <<"A">>, <<"A">> >>
  /\ Len(course_stats) = 1
  /\ course_stats[1].counts.most = 2

(***************************************************************************)
(* C10: all along the tally loop an entry exists for a course exactly when *)
(* the course was mentioned at an already processed (row, bucket,          *)
(* position); an entry is created with zero counters and at once gets the  *)
(* mentioned bucket's counter raised by one; no entry is removed, no       *)
(* counter decreases, and each tally step changes exactly one counter of   *)
(* exactly one course.                                                     *)
(***************************************************************************)
InLoop == pc \in {"rows", "courses"}

\* the courses at the processed positions of the row being scanned
SeenInRow ==
  IF ri = 0 THEN {}
  ELSE UNION {{Extracted(ri, BucketNames[b])[p] :
                 p \in 1..(IF pc = "rows" \/ b < bi
                             THEN Len(Extracted(ri, BucketNames[b]))
                             ELSE IF b = bi THEN ci ELSE 0)} :
                b \in 1..Len(BucketNames)}

Seen ==
  SeenInRow \cup
    UNION {{Extracted(i, b)[p] : p \in 1..Len(Extracted(i, b))} :
             i \in 1..(ri - 1), b \in {"most", "neutral", "least"}}

CountOf(stats, course, b) ==
  IF course \in Keys(stats) THEN Counts(stats, course)[b] ELSE 0

\* the (course, bucket) counters that differ between stats and the next stats
Changed(stats, next) ==
  {cb \in (Keys(stats) \cup Keys(next)) \X {"most", "neutral", "least"} :
     CountOf(stats, cb[1], cb[2]) # CountOf(next, cb[1], cb[2])}

TallyStepOK ==
  LET course == buckets[BucketNames[bi]][ci + 1]
  IN /\ Changed(course_stats, course_stats') = {<<course, BucketNames[bi]>>}
     /\ CountOf(course_stats', course, BucketNames[bi])
          = CountOf(course_stats, course, BucketNames[bi]) + 1
     /\ Keys(course_stats') = Keys(course_stats) \cup {course}
     /\ Len(course_stats') = Cardinality(Keys(course_stats'))
     /\ course \notin Keys(course_stats) =>
          \A b \in {"most", "neutral", "least"} :
            Counts(course_stats', course)[b] = (IF b = BucketNames[bi] THEN 1 ELSE 0)

C10_TallySteps ==
  /\ [](InLoop => Keys(course_stats) = Seen /\ Len(course_stats) = Cardinality(Seen))
  /\ [][/\ Keys(course_stats) \subseteq Keys(course_stats')
        /\ \A c \in Keys(course_stats) : \A b \in {"most", "neutral", "least"} :
             CountOf(course_stats, c, b) <= CountOf(course_stats', c, b)
        /\ (InLoop /\ ci' = ci + 1) => TallyStepOK
        /\ ~(InLoop /\ ci' = ci + 1) => course_stats' = course_stats]_vars

\* A later mention updates an entry made earlier: the course has two non-zero counters.
C10_Witness ==
  /\ pc = "courses"
  /\ ci = 1
  /\ bi = 2
  /\ \E j \in 1..Len(course_stats) :
       /\ course_stats[j].course = buckets.neutral[1]
       /\ course_stats[j].counts.most = 1
       /\ course_stats[j].counts.neutral = 1
       /\ course_stats[j].counts.least = 0

====
